---------------------------- MODULE Spec2Model ----------------------------
(***************************************************************************)
(* Model of src/job_alert_multi.py: the job-alert pipeline.                *)
(*                                                                         *)
(*   main -> gather_jobs (fetch loop over SEARCH_TERMS x SITES through     *)
(*   safe_scrape, concat, title filter, source tagging, drop_duplicates,   *)
(*   date normalisation, sort, labels) -> build_html_email -> send_email,  *)
(*   with main's except-handler sending the fallback report.               *)
(*                                                                         *)
(* A DataFrame is [cols, rows]: cols is the set of column names, rows the  *)
(* sequence of rows in frame order.  A row is a record over every column   *)
(* the model knows; a column a frame lacks, or a missing value, holds the  *)
(* NaN/None sentinel of its type.  idx is the pandas index label.          *)
(* A title is a sequence of tokens (words, blanks, punctuation), so that   *)
(* lowercasing and regex search are computed, not assumed.                 *)
(* Timestamps are whole hours on a fixed clock.                            *)
(***************************************************************************)
EXTENDS Integers, Sequences, FiniteSets, TLC

VARIABLES
    backend,      \* what scrape_jobs does for each (term, site): environment
    pc,           \* position in main / gather_jobs
    ti, si,       \* the for-loops' positions in SEARCH_TERMS and SITES
    all_results,  \* gather_jobs: list of non-empty frames
    df,           \* gather_jobs' / main's df
    html,         \* the value build_html_email returned
    exc,          \* the exception in flight ("none" when there is none)
    log,          \* the records written through logging
    sent,         \* the calls of send_email so far, with their outcome
    hist          \* the frame after each stage of gather_jobs, in order

vars == <<backend, pc, ti, si, all_results, df, html, exc, log, sent, hist>>

---------------------------------------------------------------------------
(* Configuration, lines 18-43.                                             *)

SEARCH_TERMS ==
    << "Performance Test Engineer", "Performance Engineer",
       "Performance Architect", "Performance Test Lead", "Performance" >>

SITES == << "linkedin", "indeed", "google" >>

REMOTE_ONLY == FALSE

\* Bounds of the model: rows a scenario feeds through the pipeline.
MaxRows == 3

\* The reading of datetime.now(timezone.utc) in compute_posted_ago, in hours.
Now == 100

NaN == "NaN"
NaT == -1
NaNTitle == << "NaN" >>

---------------------------------------------------------------------------
(* Regular expressions over title tokens.  A pattern is a sequence of      *)
(* atoms: lit, one token; opt, an optional token; star, any number of      *)
(* tokens of a class, the class "any" for `.` and "space" for `\s`.        *)

Lit(c) == [k |-> "lit", c |-> c]
Opt(c) == [k |-> "opt", c |-> c]
Star(c) == [k |-> "star", c |-> c]

ALLOWED_TITLE_PATTERNS ==
    << << Lit("performance"), Lit(" "), Lit("test"), Lit(" "), Lit("engineer") >>,
       << Lit("performance"), Lit(" "), Lit("engineer") >>,
       << Lit("sr"), Opt("."), Star("space"),
          Lit("performance"), Lit(" "), Lit("test"), Lit(" "), Lit("engineer") >>,
       << Lit("senior"), Lit(" "),
          Lit("performance"), Lit(" "), Lit("test"), Lit(" "), Lit("engineer") >>,
       << Lit("performance"), Lit(" "), Lit("architect") >>,
       << Lit("lead"), Star("space"), Opt("-"), Star("space"),
          Lit("performance"), Lit(" "), Lit("test"), Lit(" "), Lit("engineer") >>,
       << Lit("lead"), Lit(" "),
          Lit("performance"), Lit(" "), Lit("test"), Lit(" "), Lit("engineer") >>,
       << Lit("performance"), Lit(" "), Lit("test"), Lit(" "), Lit("lead") >>,
       << Lit("performance"), Star("any"), Lit("engineer") >>,
       << Star("any"), Lit("performance"), Star("any") >> >>

\* str.lower() on one token.
LowerTok(t) ==
    CASE t = "Performance" -> "performance"
      [] t = "PERFORMANCE" -> "performance"
      [] t = "Test"        -> "test"
      [] t = "Engineer"    -> "engineer"
      [] t = "ENGINEER"    -> "engineer"
      [] t = "Architect"   -> "architect"
      [] t = "Lead"        -> "lead"
      [] t = "Senior"      -> "senior"
      [] t = "Sr"          -> "sr"
      [] t = "Backend"     -> "backend"
      [] OTHER             -> t

\* Series.str.lower(): NaN stays NaN.
StrLower(s) ==
    IF s = NaNTitle THEN NaNTitle ELSE [i \in 1..Len(s) |-> LowerTok(s[i])]

InClass(t, c) == IF c = "space" THEN t = " " ELSE t # "\n"

\* The positions (tokens consumed) after atom a, started from positions S.
StepAtom(a, s, S) ==
    LET lit == { p + 1 : p \in { q \in S : q < Len(s) /\ s[q + 1] = a.c } }
    IN CASE a.k = "lit"  -> lit
         [] a.k = "opt"  -> S \cup lit
         [] a.k = "star" ->
              { q \in 0..Len(s) :
                  \E p \in S : p <= q /\ \A j \in (p + 1)..q : InClass(s[j], a.c) }

RECURSIVE Ends(_, _, _)
Ends(pat, s, S) ==
    IF pat = << >> THEN S ELSE Ends(Tail(pat), s, StepAtom(Head(pat), s, S))

\* "|".join(patterns): the alternation, searched as one regex.
Join(pats) == [alts |-> pats]

SearchJoined(rx, s) ==
    \E p \in 0..Len(s) : \E i \in 1..Len(rx.alts) : Ends(rx.alts[i], s, {p}) # {}

\* Series.str.contains(regex, regex=True, na=False) on one value.
StrContains(s, rx) == IF s = NaNTitle THEN FALSE ELSE SearchJoined(rx, s)

---------------------------------------------------------------------------
(* DataFrames.                                                             *)

UnknownLabel == [n |-> 0, unit |-> "Unknown"]

\* pd.DataFrame()
EmptyFrame == [cols |-> {}, rows |-> << >>]

\* DataFrame.empty: some axis has length 0.
IsEmpty(f) == f.rows = << >> \/ f.cols = {}

\* c.lower() on a column name.
ColLower(c) ==
    CASE c = "Title"       -> "title"
      [] c = "Company"     -> "company"
      [] c = "Job_URL"     -> "job_url"
      [] c = "Is_Remote"   -> "is_remote"
      [] c = "Date_Posted" -> "date_posted"
      [] OTHER             -> c

\* str(url).lower()
UrlLower(u) ==
    CASE u = "https://acme.MyWorkdayJobs.com/7" -> "https://acme.myworkdayjobs.com/7"
      [] u = NaN -> "nan"
      [] OTHER   -> u

\* "workdayjobs" in s
HasWorkday(s) ==
    s \in { "https://acme.myworkdayjobs.com/7", "https://acme.myworkdayjobs.com/8" }

\* pd.to_datetime(v, errors="coerce", utc=True) on one value, in hours.
ToDatetime(v) ==
    CASE v = "2024-05-02" -> 98
      [] v = "2024-05-01" -> 50
      [] v = "2024-04-30" -> 26
      [] OTHER            -> NaT

\* lines 56-64
compute_posted_ago(dt) ==
    IF dt = NaT THEN UnknownLabel
    ELSE LET hours == Now - dt
         IN IF hours < 24 THEN [n |-> hours, unit |-> "hours ago"]
            ELSE [n |-> hours \div 24, unit |-> "days ago"]

RECURSIVE Flatten(_)
Flatten(frames) ==
    IF frames = << >> THEN << >> ELSE Head(frames).rows \o Flatten(Tail(frames))

Reindex(rows) == [i \in 1..Len(rows) |-> [rows[i] EXCEPT !.idx = i - 1]]

\* pd.concat(all_results, ignore_index=True)
Concat(frames) ==
    [cols |-> UNION { frames[i].cols : i \in 1..Len(frames) },
     rows |-> Reindex(Flatten(frames))]

\* df.columns = [c.lower() for c in df.columns]
LowerColumns(f) == [f EXCEPT !.cols = { ColLower(c) : c \in f.cols }]

IsRemoteTrue(r) == r.is_remote = "True"

\* lines 109-110
RemoteFilter(f) ==
    IF REMOTE_ONLY /\ "is_remote" \in f.cols
    THEN [f EXCEPT !.rows = SelectSeq(f.rows, IsRemoteTrue)]
    ELSE f

\* line 113
title_regex == Join(ALLOWED_TITLE_PATTERNS)

\* A faulty TitleMask: the title is not lowercased before the search.
TitleMaskCaseSensitive(r) == StrContains(r.title, title_regex)

\* line 114: the boolean mask of one row
TitleMask(r) == StrContains(StrLower(r.title), title_regex)

TitleFilter(f) == [f EXCEPT !.rows = SelectSeq(f.rows, TitleMask)]

\* lines 117-124
tag_source(url, site) ==
    IF HasWorkday(UrlLower(url)) THEN "Workday"
    ELSE IF site = "indeed" THEN "Indeed"
    ELSE IF site = "linkedin" THEN "LinkedIn"
    ELSE "Google Jobs"

\* lines 126-129
TagSource(f) ==
    [cols |-> f.cols \cup {"source"},
     rows |-> [i \in 1..Len(f.rows) |->
                 [f.rows[i] EXCEPT !.source = tag_source(f.rows[i].job_url, f.rows[i].site)]]]

DedupKey(r) == << r.title, r.company, r.job_url >>

\* A faulty DropSeen: keep="last", the last row of each key survives.
RECURSIVE DropSeenKeepLast(_, _)
DropSeenKeepLast(rows, seen) ==
    IF rows = << >> THEN << >>
    ELSE IF \E j \in 2..Len(rows) : << rows[j].title, rows[j].company, rows[j].job_url >>
                                      = << rows[1].title, rows[1].company, rows[1].job_url >>
         THEN DropSeenKeepLast(Tail(rows), seen)
         ELSE << Head(rows) >> \o DropSeenKeepLast(Tail(rows), seen)

\* DataFrame.duplicated(subset, keep="first"): seen is the set of keys met so far.
RECURSIVE DropSeen(_, _)
DropSeen(rows, seen) ==
    IF rows = << >> THEN << >>
    ELSE IF DedupKey(Head(rows)) \in seen
         THEN DropSeen(Tail(rows), seen)
         ELSE << Head(rows) >> \o DropSeen(Tail(rows), seen \cup { DedupKey(Head(rows)) })

\* line 132
DropDuplicates(f) == [f EXCEPT !.rows = DropSeen(f.rows, {})]

DateCols == << "date_posted", "posted_date", "posted_at" >>

RawDate(r, col) ==
    CASE col = "date_posted" -> r.date_posted
      [] col = "posted_date" -> r.posted_date
      [] col = "posted_at"   -> r.posted_at

\* lines 136-139: the first of DateCols that is a column of the frame, 0 if none
RECURSIVE FirstDateCol(_, _)
FirstDateCol(cols, i) ==
    IF i > Len(DateCols) THEN 0
    ELSE IF DateCols[i] \in cols THEN i
    ELSE FirstDateCol(cols, i + 1)

\* lines 135-139
NormalizeDate(f) ==
    LET c == FirstDateCol(f.cols, 1)
    IN [cols |-> f.cols \cup {"posted_dt"},
        rows |-> [i \in 1..Len(f.rows) |->
                    [f.rows[i] EXCEPT !.posted_dt =
                        IF c = 0 THEN NaT ELSE ToDatetime(RawDate(f.rows[i], DateCols[c]))]]]

HasTime(r) == r.posted_dt # NaT
NoTime(r) == r.posted_dt = NaT

\* line 142: sort_values(by="posted_dt", ascending=False) with the default
\* kind="quicksort", which is not a stable sort: the rows with a timestamp come in
\* any order that is descending, and the NaT rows follow in frame order
\* (na_position="last").
SortOrders(rows) ==
    LET T == SelectSeq(rows, HasTime)
        N == SelectSeq(rows, NoTime)
        n == Len(T)
        perms == { p \in [1..n -> 1..n] :
                     /\ \A i, j \in 1..n : i # j => p[i] # p[j]
                     /\ \A i, j \in 1..n :
                          i < j => T[p[i]].posted_dt >= T[p[j]].posted_dt }
    IN { [i \in 1..n |-> T[p[i]]] \o N : p \in perms }

\* lines 145-147
LabelAndReset(f) ==
    [cols |-> f.cols \cup {"posted"},
     rows |-> Reindex([i \in 1..Len(f.rows) |->
                 [f.rows[i] EXCEPT !.posted = compute_posted_ago(f.rows[i].posted_dt)]])]

---------------------------------------------------------------------------
(* The report.                                                             *)

NoMatchHtml == [kind |-> "no_match", remote |-> << >>, onsite |-> << >>, total |-> 0]
ErrorHtml == [kind |-> "errors", remote |-> << >>, onsite |-> << >>, total |-> 0]
NoHtml == [kind |-> "none", remote |-> << >>, onsite |-> << >>, total |-> 0]

\* lines 168-176: one table row
Cells(r) ==
    [posted |-> r.posted, source |-> r.source, company |-> r.company,
     title |-> r.title, job_url |-> r.job_url]

\* lines 162-190
build_table(data) == [i \in 1..Len(data) |-> Cells(data[i])]

NotRemoteTrue(r) == r.is_remote # "True"

\* lines 159-201, for a non-empty frame with an is_remote column
DigestHtml(f) ==
    [kind |-> "digest",
     remote |-> build_table(SelectSeq(f.rows, IsRemoteTrue)),
     onsite |-> build_table(SelectSeq(f.rows, NotRemoteTrue)),
     total |-> Len(f.rows)]

---------------------------------------------------------------------------
(* The environment: what scrape_jobs does for each (term, site).           *)

TermSet == { SEARCH_TERMS[i] : i \in 1..Len(SEARCH_TERMS) }
SiteSet == { SITES[j] : j \in 1..Len(SITES) }
PairSet == TermSet \X SiteSet
NumPairs == Len(SEARCH_TERMS) * Len(SITES)

\* The n-th (term, site) pair in term-then-site order, n in 1..NumPairs.
PairAt(n) ==
    << SEARCH_TERMS[((n - 1) \div Len(SITES)) + 1], SITES[((n - 1) % Len(SITES)) + 1] >>

RaiseOutcome == [kind |-> "raise", df |-> EmptyFrame]
NoneOutcome == [kind |-> "none", df |-> EmptyFrame]
DfOutcome(f) == [kind |-> "df", df |-> f]

Row(title, company, url, remote, d1, d2, d3) ==
    [idx |-> 0, title |-> title, company |-> company, job_url |-> url,
     is_remote |-> remote, date_posted |-> d1, posted_date |-> d2, posted_at |-> d3,
     site |-> NaN, source |-> NaN, posted_dt |-> NaT, posted |-> UnknownLabel]

\* A frame with the columns cols: a row holds NaN in every column the frame lacks.
Frame(cols, rows) ==
    LET has(c) == c \in { ColLower(x) : x \in cols }
    IN [cols |-> cols,
        rows |-> Reindex([i \in 1..Len(rows) |->
           Row(IF has("title") THEN rows[i].title ELSE NaNTitle,
               IF has("company") THEN rows[i].company ELSE NaN,
               IF has("job_url") THEN rows[i].job_url ELSE NaN,
               IF has("is_remote") THEN rows[i].is_remote ELSE NaN,
               IF has("date_posted") THEN rows[i].date_posted ELSE NaN,
               IF has("posted_date") THEN rows[i].posted_date ELSE NaN,
               IF has("posted_at") THEN rows[i].posted_at ELSE NaN)])]

BaseCols == { "title", "company", "job_url", "is_remote", "date_posted" }

T_PerfEng == << "Performance", " ", "Engineer" >>
T_Architect == << "Senior", " ", "Performance", " ", "Architect" >>
T_Backend == << "Backend", " ", "Engineer" >>

UrlPool ==
    << "https://a/1", "https://a/2", "https://a/3", "https://a/4", "https://a/5",
       "https://a/6" >>

SeqsUpTo(S, n) == UNION { [1..k -> S] : k \in 0..n }

Min(a, b) == IF a <= b THEN a ELSE b

\* The rows go out w to a frame, the n-th frame from the n-th pair; the other
\* pairs return None.
Place(cols, rows, w) ==
    [p \in PairSet |->
        LET n == CHOOSE k \in 1..NumPairs : PairAt(k) = p
            chunk == SubSeq(rows, (n - 1) * w + 1, Min(n * w, Len(rows)))
        IN IF chunk = << >> THEN NoneOutcome ELSE DfOutcome(Frame(cols, chunk))]

\* Scenario: the sites in D are down for the terms in B, and at most one more
\* pair fails on its own; every other pair returns None, an empty frame, or one
\* posting of its own.
TitleOfTerm(t) ==
    CASE t = "Performance Test Engineer" -> << "Performance", " ", "Test", " ", "Engineer" >>
      [] t = "Performance Engineer"      -> << "Performance", " ", "Engineer" >>
      [] t = "Performance Architect"     -> << "Performance", " ", "Architect" >>
      [] t = "Performance Test Lead"     -> << "Performance", " ", "Test", " ", "Lead" >>
      [] OTHER                           -> << "Performance" >>

UrlOfSite(s) ==
    CASE s = "linkedin" -> "https://linkedin/1"
      [] s = "indeed"   -> "https://indeed/1"
      [] OTHER          -> "https://acme.MyWorkdayJobs.com/7"

Healthy(h, p) ==
    CASE h = "none"  -> NoneOutcome
      [] h = "empty" -> DfOutcome(Frame(BaseCols, << >>))
      [] OTHER       ->
           DfOutcome(Frame(BaseCols,
               << Row(TitleOfTerm(p[1]), "Acme", UrlOfSite(p[2]), NaN, NaN, NaN, NaN) >>))

InitFaults ==
    \E D \in SUBSET SiteSet, B \in SUBSET TermSet,
       X \in { {} } \cup { {p} : p \in PairSet },
       h \in {"none", "empty", "rows"} :
        backend = [p \in PairSet |->
                     IF (p[1] \in B /\ p[2] \in D) \/ p \in X
                     THEN RaiseOutcome
                     ELSE Healthy(h, p)]

\* Scenario: postings whose identity keys collide, from one or several sources.
KeyRows ==
    { Row(T_PerfEng, "Acme", "https://a/1", "False", NaN, NaN, NaN),
      Row(T_PerfEng, "Acme", "https://a/2", "False", NaN, NaN, NaN),
      Row(T_PerfEng, "Globex", "https://a/1", "False", NaN, NaN, NaN),
      Row(T_Architect, "Acme", "https://a/1", "True", NaN, NaN, NaN) }

InitDedup ==
    \E rows \in SeqsUpTo(KeyRows, MaxRows), w \in {1, 2} :
        backend = Place(BaseCols, rows, w)

\* Scenario: postings with equal, different, missing and unparseable dates.
DateValues == { "2024-05-02", "2024-05-01", "soon", NaN }

InitRank ==
    \E ds \in SeqsUpTo(DateValues, MaxRows) :
        backend = Place(BaseCols,
                        [i \in 1..Len(ds) |->
                            Row(T_PerfEng, "Acme", UrlPool[i], "False", ds[i], NaN, NaN)],
                        2)

\* Scenario: postings that are remote, not remote or unknown.
InitRemote ==
    \E rs \in SeqsUpTo({"True", "False", NaN}, MaxRows) :
        backend = Place(BaseCols,
                        [i \in 1..Len(rs) |->
                            Row(T_PerfEng, "Acme", UrlPool[i], rs[i], NaN, NaN, NaN)],
                        2)

\* Scenario: titles that match the allow-list or not, in any case, or missing.
TitlePool ==
    { T_PerfEng, T_Architect, T_Backend, NaNTitle,
      << "SR", ".", " ", "PERFORMANCE", " ", "Test", " ", "ENGINEER" >>,
      << "Performance" >>, << "perf", " ", "engineer" >>, << >> }

InitTitles ==
    \E ts \in SeqsUpTo(TitlePool, MaxRows - 1) :
        backend = Place(BaseCols,
                        [i \in 1..Len(ts) |->
                            Row(ts[i], "Acme", UrlPool[i], "False", NaN, NaN, NaN)],
                        1)

\* Scenario: any of the three date columns present, each populated or not per row.
DateRows ==
    { Row(T_PerfEng, "Acme", "https://a/1", "False", d1, d2, d3) :
        d1 \in {"2024-05-02", "soon", NaN}, d2 \in {"2024-05-01", NaN},
        d3 \in {"2024-04-30", NaN} }

InitDates ==
    \E S \in SUBSET { DateCols[i] : i \in 1..Len(DateCols) },
       rows \in SeqsUpTo(DateRows, MaxRows - 1) :
        backend = Place((BaseCols \ {"date_posted"}) \cup S,
                        [i \in 1..Len(rows) |-> [rows[i] EXCEPT !.job_url = UrlPool[i]]],
                        1)

\* Scenario: backends that lack columns, or spell them with capitals.
ColUpper(c) ==
    CASE c = "title"       -> "Title"
      [] c = "company"     -> "Company"
      [] c = "job_url"     -> "Job_URL"
      [] c = "is_remote"   -> "Is_Remote"
      [] c = "date_posted" -> "Date_Posted"
      [] OTHER             -> c

InitColumns ==
    \E missing \in SUBSET { "title", "company", "job_url", "is_remote" },
       capitals \in BOOLEAN :
        backend = Place({ IF capitals THEN ColUpper(c) ELSE c : c \in BaseCols \ missing },
                        << Row(T_PerfEng, "Acme", "https://a/1", "True",
                               "2024-05-02", NaN, NaN) >>,
                        1)

Init ==
    /\ \/ InitFaults
       \/ InitDedup
       \/ InitRank
       \/ InitRemote
       \/ InitTitles
       \/ InitDates
       \/ InitColumns
    /\ pc = "scrape"
    /\ ti = 1
    /\ si = 1
    /\ all_results = << >>
    /\ df = EmptyFrame
    /\ html = NoHtml
    /\ exc = "none"
    /\ log = << >>
    /\ sent = << >>
    /\ hist = << >>

---------------------------------------------------------------------------
(* The program.                                                            *)

Rec(level, msg, site, term) ==
    [level |-> level, msg |-> msg, site |-> site, term |-> term]

\* jobspy's scrape_jobs, line 74
scrape_jobs(site, term) == backend[<< term, site >>]

\* lines 67-88: the frame safe_scrape returns and the records it logs
safe_scrape(site, term) ==
    LET r == scrape_jobs(site, term)
        info == Rec("INFO", "Scraping", site, term)
    IN IF r.kind = "raise"
       THEN [df |-> EmptyFrame, logs |-> << info, Rec("ERROR", "failed", site, term) >>]
       ELSE IF r.kind = "none" \/ IsEmpty(r.df)
       THEN [df |-> EmptyFrame, logs |-> << info, Rec("WARNING", "No results", site, term) >>]
       ELSE [df |-> r.df, logs |-> << info >>]

\* line 98: df["site"] = site
WithSite(f, site) ==
    [cols |-> f.cols \cup {"site"},
     rows |-> [i \in 1..Len(f.rows) |-> [f.rows[i] EXCEPT !.site = site]]]

\* lines 97-99
Collect(results, f, site) ==
    IF ~IsEmpty(f) THEN Append(results, WithSite(f, site)) ELSE results

\* A faulty NextPair: the loops nested the other way round, sites outermost.
NextPairSitesOutermost(t, s) ==
    IF t < Len(SEARCH_TERMS) THEN << t + 1, s >>
    ELSE IF s < Len(SITES) THEN << 1, s + 1 >>
    ELSE << 0, 0 >>

\* lines 94-95: the loop positions after (t, s), << 0, 0 >> when the loops are over
NextPair(t, s) ==
    IF s < Len(SITES) THEN << t, s + 1 >>
    ELSE IF t < Len(SEARCH_TERMS) THEN << t + 1, 1 >>
    ELSE << 0, 0 >>

\* lines 94-99: one iteration of the loops
Scrape ==
    /\ pc = "scrape"
    /\ LET r == safe_scrape(SITES[si], SEARCH_TERMS[ti])
           n == NextPair(ti, si)
       IN /\ all_results' = Collect(all_results, r.df, SITES[si])
          /\ log' = log \o r.logs
          /\ IF n = << 0, 0 >>
             THEN /\ pc' = "concat"
                  /\ UNCHANGED << ti, si >>
             ELSE /\ pc' = "scrape"
                  /\ ti' = n[1]
                  /\ si' = n[2]
    /\ UNCHANGED << backend, df, html, exc, sent, hist >>

\* A faulty Raise: main without its try/except, the exception leaves main.
RaiseUncaught(e) ==
    /\ pc' = "crashed"
    /\ exc' = e

\* An exception leaves gather_jobs or build_html_email for main's handler.
Raise(e) ==
    /\ pc' = "except"
    /\ exc' = e

Stage(name, f, next) ==
    /\ df' = f
    /\ hist' = Append(hist, [stage |-> name, df |-> f])
    /\ pc' = next
    /\ UNCHANGED exc

\* lines 101-110
ConcatFrames ==
    /\ pc = "concat"
    /\ IF all_results = << >>
       THEN /\ log' = Append(log, Rec("ERROR", "All sources failed", NaN, NaN))
            /\ df' = EmptyFrame
            /\ pc' = "build"
            /\ UNCHANGED << hist, exc >>
       ELSE /\ Stage("concat", RemoteFilter(LowerColumns(Concat(all_results))), "filter")
            /\ UNCHANGED log
    /\ UNCHANGED << backend, ti, si, all_results, html, sent >>

\* lines 113-114
FilterTitles ==
    /\ pc = "filter"
    /\ IF "title" \in df.cols
       THEN Stage("filter", TitleFilter(df), "tag")
       ELSE Raise("KeyError") /\ UNCHANGED << df, hist >>
    /\ UNCHANGED << backend, ti, si, all_results, html, log, sent >>

\* lines 126-129
Tag ==
    /\ pc = "tag"
    /\ Stage("tag", TagSource(df), "dedup")
    /\ UNCHANGED << backend, ti, si, all_results, html, log, sent >>

\* line 132
Deduplicate ==
    /\ pc = "dedup"
    /\ IF {"title", "company", "job_url"} \subseteq df.cols
       THEN Stage("dedup", DropDuplicates(df), "dates")
       ELSE Raise("KeyError") /\ UNCHANGED << df, hist >>
    /\ UNCHANGED << backend, ti, si, all_results, html, log, sent >>

\* lines 135-139
Dates ==
    /\ pc = "dates"
    /\ Stage("dates", NormalizeDate(df), "sort")
    /\ UNCHANGED << backend, ti, si, all_results, html, log, sent >>

\* line 142
Sort ==
    /\ pc = "sort"
    /\ \E rows \in SortOrders(df.rows) :
          Stage("sort", [df EXCEPT !.rows = rows], "label")
    /\ UNCHANGED << backend, ti, si, all_results, html, log, sent >>

\* lines 145-148
Label ==
    /\ pc = "label"
    /\ Stage("label", LabelAndReset(df), "build")
    /\ UNCHANGED << backend, ti, si, all_results, html, log, sent >>

\* lines 151-201, called at line 221.  df.get("is_remote") is None for a frame
\* without that column, and df[None == True] is df[False]: a KeyError.
Build ==
    /\ pc = "build"
    /\ IF IsEmpty(df)
       THEN html' = NoMatchHtml /\ pc' = "send" /\ UNCHANGED exc
       ELSE IF "is_remote" \in df.cols
       THEN html' = DigestHtml(df) /\ pc' = "send" /\ UNCHANGED exc
       ELSE Raise("KeyError") /\ UNCHANGED html
    /\ UNCHANGED << backend, ti, si, all_results, df, log, sent, hist >>

\* lines 204-215: one call of send_email
Call(body, count, ok) == [body |-> body, count |-> count, ok |-> ok]

\* lines 221-222
Send ==
    /\ pc = "send"
    /\ \E ok \in BOOLEAN :
          /\ sent' = Append(sent, Call(html, Len(df.rows), ok))
          /\ IF ok
             THEN /\ log' = Append(log, Rec("INFO", "Email sent", NaN, NaN))
                  /\ pc' = "done"
                  /\ UNCHANGED exc
             ELSE /\ Raise("SMTPException")
                  /\ UNCHANGED log
    /\ UNCHANGED << backend, ti, si, all_results, df, html, hist >>

\* lines 223-229: the handler; an exception of its send_email leaves main
Except ==
    /\ pc = "except"
    /\ log' = Append(log, Rec("CRITICAL", exc, NaN, NaN))
    /\ \E ok \in BOOLEAN :
          /\ sent' = Append(sent, Call(ErrorHtml, 0, ok))
          /\ IF ok
             THEN pc' = "done" /\ exc' = "none"
             ELSE pc' = "crashed" /\ exc' = "SMTPException"
    /\ UNCHANGED << backend, ti, si, all_results, df, html, hist >>

Next ==
    \/ Scrape
    \/ ConcatFrames
    \/ FilterTitles
    \/ Tag
    \/ Deduplicate
    \/ Dates
    \/ Sort
    \/ Label
    \/ Build
    \/ Send
    \/ Except

Spec == Init /\ [][Next]_vars

\* main runs to its end: no step of it waits on another process.
FairSpec == Spec /\ WF_vars(Next)

Terminated == pc \in {"done", "crashed"}

---------------------------------------------------------------------------
(* Vocabulary of the properties.                                           *)

Range(q) == { q[i] : i \in 1..Len(q) }

IsAttempt(r) == r.level = "INFO" /\ r.msg = "Scraping"
IsFailure(r) == r.level = "ERROR" /\ r.msg = "failed"

\* The (term, site) pairs attempted so far, and those recorded as failed.
Attempts == SelectSeq(log, IsAttempt)
Failures == SelectSeq(log, IsFailure)

Raises(n) == backend[PairAt(n)].kind = "raise"
Yields(n) == backend[PairAt(n)].kind = "df" /\ backend[PairAt(n)].df.rows # << >>

\* The frames of the first n pairs that returned postings, in pair order.
RECURSIVE Candidates(_)
Candidates(n) ==
    IF n = 0 THEN << >>
    ELSE IF Yields(n)
         THEN Append(Candidates(n - 1),
                     WithSite(backend[PairAt(n)].df, PairAt(n)[2]))
         ELSE Candidates(n - 1)

RECURSIVE FailedPairs(_)
FailedPairs(n) ==
    IF n = 0 THEN << >>
    ELSE IF Raises(n) THEN Append(FailedPairs(n - 1), PairAt(n))
    ELSE FailedPairs(n - 1)

AllPairsFail == \A p \in PairSet : backend[p].kind = "raise"

\* The input and the output rows of the stage recorded at hist[k].
In(k) == hist[k - 1].df.rows
Out(k) == hist[k].df.rows
StageIs(k, name) == k \in 1..Len(hist) /\ hist[k].stage = name

\* An exception of gather_jobs or build_html_email reached main's handler.
StageRaised ==
    \/ pc = "except" /\ exc = "KeyError"
    \/ \E i \in 1..Len(log) : log[i].level = "CRITICAL" /\ log[i].msg = "KeyError"


\* re.search(pattern, s) finds a match of the one pattern pat somewhere in s.
Search(pat, s) == Ends(pat, s, 0..Len(s)) # {}

\* Some pattern of the allow-list is found in the lowercased title.
Matches(title) ==
    /\ title # NaNTitle
    /\ \E i \in 1..Len(ALLOWED_TITLE_PATTERNS) :
          Search(ALLOWED_TITLE_PATTERNS[i], StrLower(title))

---------------------------------------------------------------------------
(* C1: every (term, site) pair is attempted exactly once, in term-then-site *)
(* order, whichever pairs fail: at every moment the attempts are the first  *)
(* pairs of that order, one error record stands for each pair that raised   *)
(* and nothing else, and the candidate list holds the frames of exactly the *)
(* attempted pairs that returned postings; when the loop is over all pairs  *)
(* have been attempted.                                                     *)
C1_EveryPairAttemptedOnceInOrder ==
    LET n == Len(Attempts)
    IN /\ n <= NumPairs
       /\ \A k \in 1..n : << Attempts[k].term, Attempts[k].site >> = PairAt(k)
       /\ pc # "scrape" => n = NumPairs
       /\ [k \in 1..Len(Failures) |-> << Failures[k].term, Failures[k].site >>]
             = FailedPairs(n)
       /\ all_results = Candidates(n)

C1_Witness ==
    /\ pc = "concat"
    /\ \E m, n \in 1..NumPairs :
          /\ m < n
          /\ Raises(m)
          /\ Yields(n)
          /\ \E i \in 1..Len(all_results) :
                all_results[i] = WithSite(backend[PairAt(n)].df, PairAt(n)[2])

(* C2: in every run of main there is exactly one call of send_email.       *)
C2_ExactlyOneDispatch == Terminated => Len(sent) = 1

C2_Witness == Terminated /\ Len(sent) = 1

(* C3, state by state: a finished run has made a dispatch attempt; when     *)
(* gather_jobs or build_html_email raised, the exception is not propagated  *)
(* and the first (and only) report sent is the "encountered errors" report  *)
(* with count 0; otherwise the first report sent is the one built from the  *)
(* gathered postings, with their count.                                     *)
C3_DispatchRight ==
    /\ Terminated => sent # << >>
    /\ (sent # << >> /\ StageRaised) =>
          /\ Len(sent) = 1
          /\ sent[1].body = ErrorHtml
          /\ sent[1].count = 0
          /\ pc = "crashed" => exc = "SMTPException" /\ ~sent[1].ok
    /\ (sent # << >> /\ ~StageRaised) =>
          /\ sent[1].body = (IF IsEmpty(df) THEN NoMatchHtml ELSE DigestHtml(df))
          /\ sent[1].count = Len(df.rows)

(* C3, as a property of whole runs: the first dispatch is always the right  *)
(* one, and every run of main that keeps taking its steps reaches a call of *)
(* send_email.                                                              *)
C3_AlwaysDispatches == []C3_DispatchRight /\ <>(sent # << >>)

C3_Witness ==
    /\ pc = "done"
    /\ StageRaised
    /\ Len(sent) = 1
    /\ sent[1].body = ErrorHtml

(* C4: when the fetch of every pair fails, gather_jobs returns an empty     *)
(* candidate set with a non-empty record of failures, and the run ends      *)
(* normally having dispatched the "no matching jobs" report with count 0.   *)
C4_AllFailStillReports ==
    (AllPairsFail /\ Terminated) =>
        /\ all_results = << >>
        /\ IsEmpty(df)
        /\ Failures # << >>
        /\ \E i \in 1..Len(sent) : sent[i].body = NoMatchHtml /\ sent[i].count = 0
        /\ pc = "done"

C4_Witness ==
    /\ AllPairsFail
    /\ pc = "done"
    /\ Len(Failures) = NumPairs
    /\ sent = << Call(NoMatchHtml, 0, TRUE) >>

(* C5: main never ends by propagating an exception.                         *)
C5_NeverPropagates == pc # "crashed"

(* C6: the dedup step keeps, for each identity key (title, company,         *)
(* job_url), the first row in incoming order and drops every later one,     *)
(* whatever the sources; its output is in incoming order, has no two rows   *)
(* with the same key, and the step applied to its output changes nothing.   *)
C6_DedupKeepsFirst ==
    \A k \in 1..Len(hist) :
        StageIs(k, "dedup") =>
            /\ \A i \in 1..Len(In(k)) :
                  (In(k)[i] \in Range(Out(k)))
                     <=> ~\E j \in 1..(i - 1) : DedupKey(In(k)[j]) = DedupKey(In(k)[i])
            /\ Range(Out(k)) \subseteq Range(In(k))
            /\ \A a, b \in 1..Len(Out(k)) :
                  a < b => /\ Out(k)[a].idx < Out(k)[b].idx
                           /\ DedupKey(Out(k)[a]) # DedupKey(Out(k)[b])
            /\ DropDuplicates(hist[k].df) = hist[k].df

C6_Witness ==
    \E k \in 1..Len(hist) :
        /\ StageIs(k, "dedup")
        /\ Len(Out(k)) >= 2
        /\ \E i, j \in 1..Len(In(k)) :
              /\ i < j
              /\ DedupKey(In(k)[i]) = DedupKey(In(k)[j])
              /\ In(k)[i].site # In(k)[j].site
              /\ In(k)[j] \notin Range(Out(k))

(* C7: the ranking step orders the rows by posted_dt descending, the rows   *)
(* without a timestamp after all the others, and is stable: rows with equal *)
(* posted_dt (NaT included) keep their incoming order.                      *)
C7_RankStable ==
    \A k \in 1..Len(hist) :
        StageIs(k, "sort") =>
            /\ Range(Out(k)) = Range(In(k))
            /\ Len(Out(k)) = Len(In(k))
            /\ \A a, b \in 1..Len(Out(k)) :
                  a < b =>
                     /\ HasTime(Out(k)[b]) => HasTime(Out(k)[a])
                     /\ Out(k)[a].posted_dt >= Out(k)[b].posted_dt
                           \/ NoTime(Out(k)[a])
                     /\ Out(k)[a].posted_dt = Out(k)[b].posted_dt
                           => Out(k)[a].idx < Out(k)[b].idx

C7_Witness ==
    \E k \in 1..Len(hist) :
        /\ StageIs(k, "sort")
        /\ \E a, b \in 1..Len(Out(k)) :
              /\ a < b
              /\ HasTime(Out(k)[a])
              /\ Out(k)[a].posted_dt = Out(k)[b].posted_dt
              /\ Out(k)[a].idx < Out(k)[b].idx

(* C8: for every non-empty ranked frame build_html_email returns a report   *)
(* with each posting in exactly one bucket, remote when is_remote is true   *)
(* and onsite/hybrid otherwise (also when the frame has no is_remote        *)
(* column), each bucket in ranked order, the bucket sizes adding up to the  *)
(* reported total.                                                          *)
C8_BucketsPartition ==
    (pc \in {"send", "except", "done", "crashed"} /\ ~IsEmpty(df)
        /\ hist # << >> /\ hist[Len(hist)].stage = "label") =>
        /\ html.kind = "digest"
        /\ html.remote = build_table(SelectSeq(df.rows, IsRemoteTrue))
        /\ html.onsite = build_table(SelectSeq(df.rows, NotRemoteTrue))
        /\ Len(html.remote) + Len(html.onsite) = html.total
        /\ html.total = Len(df.rows)

C8_Witness ==
    /\ pc = "send"
    /\ html.kind = "digest"
    /\ html.remote # << >>
    /\ \E i \in 1..Len(df.rows) : df.rows[i].is_remote = NaN
    /\ Len(html.remote) + Len(html.onsite) = Len(df.rows)

(* C9: a fetched posting survives the title filter exactly when its         *)
(* lowercased title is matched (regex search) by at least one pattern of    *)
(* ALLOWED_TITLE_PATTERNS, the survivors stay in order, and every posting   *)
(* of a dispatched report matches some pattern.                             *)
C9_TitleFilterExact ==
    /\ \A k \in 1..Len(hist) :
          StageIs(k, "filter") =>
             /\ \A i \in 1..Len(In(k)) :
                   (In(k)[i] \in Range(Out(k))) <=> Matches(In(k)[i].title)
             /\ Range(Out(k)) \subseteq Range(In(k))
             /\ \A a, b \in 1..Len(Out(k)) : a < b => Out(k)[a].idx < Out(k)[b].idx
    /\ \A s \in 1..Len(sent) :
          \A c \in Range(sent[s].body.remote) \cup Range(sent[s].body.onsite) :
             Matches(c.title)

C9_Witness ==
    /\ pc = "done"
    /\ sent[1].body.kind = "digest"
    /\ \E k \in 1..Len(hist) :
          /\ StageIs(k, "filter")
          /\ \E r \in Range(Out(k)) : r.title # StrLower(r.title)
          /\ \E r \in Range(In(k)) : r \notin Range(Out(k)) /\ r.title # NaNTitle

\* The value of the first date field that is populated for the row r.
FirstPopulated(r) ==
    IF r.date_posted # NaN THEN r.date_posted
    ELSE IF r.posted_date # NaN THEN r.posted_date
    ELSE r.posted_at

(* C10: posted_dt of a posting is the parse of the first of date_posted,    *)
(* posted_date, posted_at that is populated for that posting, and NaT only  *)
(* when none is populated or the chosen value does not parse.               *)
C10_FirstPopulatedField ==
    \A k \in 1..Len(hist) :
        StageIs(k, "dates") =>
            \A i \in 1..Len(Out(k)) :
                Out(k)[i].posted_dt = ToDatetime(FirstPopulated(In(k)[i]))

C10_Witness ==
    \E k \in 1..Len(hist) :
        /\ StageIs(k, "dates")
        /\ \E i \in 1..Len(Out(k)) :
              /\ In(k)[i].date_posted = NaN
              /\ In(k)[i].posted_date # NaN
              /\ Out(k)[i].posted_dt = ToDatetime(In(k)[i].posted_date)

=============================================================================
